---- MODULE Spec2Model ----
(***************************************************************************)
(* Duty-cycle controller of the ambient light sensor node: the persistent  *)
(* phase machine kept in backup RAM (src/app.py), the wake/sleep loop of   *)
(* main() and the top-level exception handler of src/main.py.              *)
(***************************************************************************)
EXTENDS Integers, Sequences, FiniteSets, TLC

\* ------------------------------------------------------------------ bounds
\* lux_cycles ranges over 1..MaxCycles.
MaxCycles == 2
\* The diagnostic buffer takes a failed batch back only up to this length.
MaxBuf == 8
\* Button warnings that can wait in the buffer and the snapshot together.
MaxPresses == 1

\* ------------------------------------------------------- program constants
LUX_SAMPLING == 0
ALL_SAMPLING == 1
BACKUP_NAME_STATE == "state"
BACKUP_NAME_PC == "pc"

\* class DeviceState(Enum)
DeviceState == {LUX_SAMPLING, ALL_SAMPLING}

\* machine.reset_cause() values.  The program never deep-sleeps, so a
\* deep-sleep wake is not among the causes it can see.
ColdCauses == {"PWRON_RESET", "HARD_RESET"}
WarmCauses == {"WDT_RESET", "SOFT_RESET"}

\* What the keyed area of the RTC memory can hold when the program has not
\* (yet) written it: any subset of the two keys, the phase key holding any
\* small ordinal, also one that DeviceState does not define (the validity
\* check of lines 122-131 reads the key and never looks at the value).
StoredOrdinals == DeviceState \cup {ALL_SAMPLING + 1}
StaleChannels == {1}
ScanChannels == {6}
EmptyRam == [k \in {} |-> 0]
RamContents ==
    { [k \in ks |-> IF k = BACKUP_NAME_STATE THEN s ELSE c] :
        ks \in SUBSET {BACKUP_NAME_STATE, BACKUP_NAME_PC},
        s \in StoredOrdinals, c \in StaleChannels }

\* The options of config.py that main() and main.py read.  lux_cycles is read
\* at src/app.py:276 and batt_cap at src/app.py:187; has_lux_cycles and
\* has_batt_cap tell whether the config dict defines them (the dict of
\* config.py as shipped defines neither).
Configs ==
    { c \in [ has_batt_cap : BOOLEAN,
              has_lux_cycles : BOOLEAN,
              lux_cycles : 1..MaxCycles,
              debug : BOOLEAN,
              log_to_buffer : BOOLEAN ] :
        ~c.has_lux_cycles => c.lux_cycles = 1 }

\* The dict of config.py as shipped: "debug" True, "log_to_buffer" False, no
\* "batt_cap" and no "lux_cycles".
ShippedConfig ==
    [ has_batt_cap |-> FALSE, has_lux_cycles |-> FALSE, lux_cycles |-> 1,
      debug |-> TRUE, log_to_buffer |-> FALSE ]

VARIABLES
    config,         \* the static configuration (config.py)
    reset_cause,    \* machine.reset_cause() of the current boot
    backup_ram,     \* BackupDict: the keyed records
    backup_logs,    \* BackupList: the diagnostic buffer (the entries' messages)
    pc,             \* position of the program
    first_boot,     \* local of main()
    iteration,      \* StateLux.iteration (0 before the state table exists)
    state_id,       \* local of main(): the Phase Record read at line 285
    logs,           \* local of main(): the snapshot taken at line 294
    exc,            \* the exception that left main(), "none" if none
    exception_log,  \* whether Exception_Log.txt holds a trace
    led,            \* the board LED
    \* bookkeeping of the run (read by the properties only)
    episode,        \* episodes started since the boot, modulo lux_cycles + 1
    narrow_boot,    \* narrow episodes since the boot or the last broad episode
    narrow_any,     \* the same, counted across warm reboots that fall between
                    \* episodes (any other reset or a fault starts it over)
    cycle_writes,   \* values written to the Phase Record in the current cycle
    ram_resets,     \* backup_ram.reset() calls of this boot
    prev,           \* the Phase Record when the last reboot happened, and
                    \* whether the narrow countdown was under way then
    late,           \* entries appended between the snapshot copy and clear()
    failed_batch,   \* the snapshot whose publish failed, until the next snapshot is
                    \* taken or the next boot has started main()
    handler,        \* what the except clause did so far: "trace", "blink"
    connected,      \* whether the network connection is up
    scan_result,    \* outcome of the scan of this boot, until the loop starts
    interrupted     \* the phase whose entry() a fault or a reboot cut short,
                    \* and which of the two ("hard_reset" once the except
                    \* clause has reset the device, for the boot that follows),
                    \* until the next entry() ends

vars == << config, reset_cause, backup_ram, backup_logs, pc, first_boot,
           iteration, state_id, logs, exc, exception_log, led, episode,
           narrow_boot, narrow_any, cycle_writes, ram_resets, prev, late,
           failed_batch, handler, connected, scan_result, interrupted >>

\* ------------------------------------------------------------------ helpers
Range(s) == { s[i] : i \in 1..Len(s) }

IsPrefix(s, t) == Len(s) <= Len(t) /\ \A i \in 1..Len(s) : s[i] = t[i]

\* backup_ram[key] = val
RamSet(ram, key, val) ==
    [k \in (DOMAIN ram) \cup {key} |-> IF k = key THEN val ELSE ram[k]]

\* The Phase Record as a set: empty when the key is not in the store.
PhaseOf(ram) ==
    IF BACKUP_NAME_STATE \in DOMAIN ram THEN {ram[BACKUP_NAME_STATE]} ELSE {}

\* Logger calls at INFO or above: the buffer handler appends one entry per
\* call when log_to_buffer is set (buffer_logging_level is INFO).
Logged(buf, entries) == IF config.log_to_buffer THEN buf \o entries ELSE buf

\* Occurrences of an entry in a sequence.
Count(s, e) == Cardinality({ i \in 1..Len(s) : s[i] = e })

Min(a, b) == IF a < b THEN a ELSE b


\* ------------------------------------------------------------ pure helpers
\* (variant: the reset is left out)
backup_ram_reset_skipped(ram) == ram

\* BackupDict.reset(): the keyed area holds no key afterwards.
backup_ram_reset(ram) == EmptyRam

\* backup_ram_init(): reset the store, then set the Phase Record.
backup_ram_init(ram) ==
    RamSet(backup_ram_reset(ram), BACKUP_NAME_STATE, LUX_SAMPLING)

\* backup_ram_is_valid(): the lookup of the key raises KeyError or not.
backup_ram_is_valid(ram) == BACKUP_NAME_STATE \in DOMAIN ram

\* (variant: the lookup of a missing key inserts a default)
backup_ram_is_valid_store_default(ram) ==
    IF BACKUP_NAME_STATE \in DOMAIN ram
    THEN ram ELSE RamSet(ram, BACKUP_NAME_STATE, LUX_SAMPLING)

\* backup_ram_is_valid(): the store after the call.  The body logs at DEBUG
\* and reads one key (line 127); it assigns nothing.
backup_ram_is_valid_store(ram) == ram

\* (variant: only a power-on counts as a first boot)
is_first_boot_pwron_only(cause) == cause = "PWRON_RESET"

\* (variant: every boot is taken for a first boot)
is_first_boot_always(cause) == TRUE

\* first_boot of main()
is_first_boot(cause) == cause \in ColdCauses

\* (variant: the store is initialised on every boot)
must_init_always(first, ram) == TRUE

\* The test of lines 203-206: initialise the store or keep it.
must_init(first, ram) == first \/ ~backup_ram_is_valid(ram)

\* (variant: the countdown starts one short)
StateLux_init_short(total_iterations) == total_iterations - 1

\* StateLux.__init__: the countdown starts at total_iterations.
StateLux_init(total_iterations) == total_iterations

\* (variant: the countdown is never decremented)
StateLux_entry_stuck(it) == it

\* StateLux.entry, after read and publish: the countdown.
StateLux_entry(it) == IF it > 0 THEN it - 1 ELSE it

\* (variant: the transition is taken one episode early)
StateLux_exit_early(it, total_iterations, ram) ==
    IF it <= 1
    THEN << total_iterations,
            RamSet(ram, BACKUP_NAME_STATE, ALL_SAMPLING),
            << ALL_SAMPLING >> >>
    ELSE << it, ram, << >> >>

\* (variant: the countdown is not reset on the transition)
StateLux_exit_noreset(it, total_iterations, ram) ==
    IF it = 0
    THEN << it, RamSet(ram, BACKUP_NAME_STATE, ALL_SAMPLING), << ALL_SAMPLING >> >>
    ELSE << it, ram, << >> >>

\* StateLux.exit: <<countdown, store, values written to the Phase Record>>.
StateLux_exit(it, total_iterations, ram) ==
    IF it = 0
    THEN << total_iterations,
            RamSet(ram, BACKUP_NAME_STATE, ALL_SAMPLING),
            << ALL_SAMPLING >> >>
    ELSE << it, ram, << >> >>

\* (variant: the next phase is computed as the ordinal after the current one)
StateAll_exit_next(ram) ==
    << RamSet(ram, BACKUP_NAME_STATE, ALL_SAMPLING + 1), << ALL_SAMPLING + 1 >> >>

\* StateAll.exit: <<store, values written to the Phase Record>>.
StateAll_exit(ram) ==
    << RamSet(ram, BACKUP_NAME_STATE, LUX_SAMPLING), << LUX_SAMPLING >> >>

\* BackupList.clear()
clear(buf) == << >>

\* state_table[state_id] raises IndexError for an index the table lacks.
state_table_has(id) == id \in DeviceState

\* ------------------------------------------------------------------- Init
NotInterrupted == [ phase |-> {}, by |-> "none" ]

\* The first boot seen is a power-on, a press of the reset button, or a warm
\* reset into whatever an earlier firmware left in the RTC memory.
Init ==
    /\ config \in Configs
    /\ reset_cause \in ColdCauses \cup WarmCauses
    /\ backup_ram \in RamContents
    /\ backup_logs = << >>
    /\ pc = "import"
    /\ first_boot = FALSE
    /\ iteration = 0
    /\ state_id = 0
    /\ logs = << >>
    /\ exc = "none"
    /\ exception_log = FALSE
    /\ led = FALSE
    /\ episode = 0
    /\ narrow_boot = 0
    /\ narrow_any = 0
    /\ cycle_writes = << >>
    /\ ram_resets = 0
    /\ prev = [ state |-> IF is_first_boot(reset_cause) THEN {} ELSE PhaseOf(backup_ram),
                mid_countdown |-> FALSE ]
    /\ late = << >>
    /\ failed_batch = << >>
    /\ handler = << >>
    /\ connected = FALSE
    /\ scan_result = "none"
    /\ interrupted = NotInterrupted

\* ------------------------------------------------------------ environment
MainPcs ==
    { "backup_ram", "net", "scan", "sync", "connect", "lookup", "entry",
      "exit", "flush_copy", "flush_clear", "publish", "disconnect", "sleep" }

\* Positions inside an episode, after the Phase Record was read.
EpisodePcs ==
    { "entry", "exit", "flush_copy", "flush_clear", "publish", "disconnect" }

\* Positions of the loop, lines 281-300.
LoopPcs == EpisodePcs \cup { "connect", "lookup", "sleep" }

\* Positions of main() at which no episode is under way.
BetweenEpisodesPcs ==
    { "import", "boot", "backup_ram", "net", "scan", "sync", "connect", "sleep" }

\* What every reset does to the volatile state of the interpreter.
Restart(cause) ==
    /\ reset_cause' = cause
    /\ pc' = "import"
    /\ first_boot' = FALSE
    /\ iteration' = 0
    /\ state_id' = 0
    /\ logs' = << >>
    /\ exc' = "none"
    /\ led' = FALSE
    /\ episode' = 0
    /\ narrow_boot' = 0
    /\ cycle_writes' = << >>
    /\ ram_resets' = 0
    /\ late' = << >>
    /\ handler' = << >>
    /\ connected' = FALSE
    /\ scan_result' = "none"
    /\ UNCHANGED << config, exception_log >>

\* A power-on or hard reset: the keyed area of the RTC memory is lost or
\* still holds what it held, the buffer area holds nothing that was logged.
ColdRestart(cause) ==
    /\ Restart(cause)
    /\ backup_ram' \in {EmptyRam, backup_ram}
    /\ backup_logs' = << >>
    /\ prev' = [ state |-> {}, mid_countdown |-> FALSE ]
    /\ failed_batch' = << >>
    /\ narrow_any' = 0
    /\ interrupted' = IF cause = "HARD_RESET" /\ interrupted.phase # {}
                      THEN [ phase |-> interrupted.phase, by |-> "hard_reset" ]
                      ELSE NotInterrupted

\* Watchdog or soft reset: the RTC memory survives.
WarmReboot ==
    /\ \E cause \in WarmCauses : Restart(cause)
    /\ prev' = [ state |-> PhaseOf(backup_ram),
                 mid_countdown |-> /\ PhaseOf(backup_ram) = {LUX_SAMPLING}
                                   /\ 0 < iteration
                                   /\ iteration < config.lux_cycles ]
    /\ narrow_any' = IF pc \in BetweenEpisodesPcs THEN narrow_any ELSE 0
    /\ interrupted' = IF pc = "entry"
                      THEN [ phase |-> {state_id}, by |-> "reboot" ]
                      ELSE IF interrupted.by = "hard_reset"
                      THEN NotInterrupted ELSE interrupted
    /\ UNCHANGED << backup_ram, backup_logs, failed_batch >>

\* Power loss and power-on.
PowerCycle == ColdRestart("PWRON_RESET")

\* cb_button: the button interrupt, registered at line 199.  It toggles the
\* charger and logs a warning when the charger raises RuntimeError; only the
\* warning touches the state modelled here.
cb_button ==
    /\ pc \in MainPcs
    /\ Count(backup_logs, "button") + Count(logs, "button") < MaxPresses
    /\ backup_logs' = Logged(backup_logs, << "button" >>)
    /\ late' = IF pc = "flush_clear" /\ config.log_to_buffer
               THEN Append(late, "button") ELSE late
    /\ UNCHANGED << config, reset_cause, backup_ram, pc, first_boot, iteration,
                    state_id, logs, exc, exception_log, led, episode,
                    narrow_boot, narrow_any, cycle_writes, ram_resets, prev,
                    failed_batch, handler,
                    scan_result, connected, interrupted >>

\* -------------------------------------------------------- app.py, startup
\* An exception leaves main() with the buffer holding buf: the locals of
\* main() are gone and control passes to the except clause of main.py.
Raise(e, buf) ==
    /\ pc' = "exc_log"
    /\ exc' = e
    /\ backup_logs' = buf
    /\ first_boot' = FALSE
    /\ iteration' = 0
    /\ state_id' = 0
    /\ logs' = << >>
    /\ episode' = 0
    /\ narrow_boot' = 0
    /\ cycle_writes' = << >>
    /\ late' = << >>
    /\ narrow_any' = 0
    /\ scan_result' = "none"
    /\ interrupted' = IF pc = "entry"
                      THEN [ phase |-> {state_id}, by |-> "fault" ]
                      ELSE NotInterrupted
    /\ UNCHANGED << config, reset_cause, backup_ram, exception_log, led,
                    ram_resets, prev, failed_batch, handler,
                    connected >>

\* Module level of app.py, lines 38-55: with log_to_buffer the buffer is
\* created and cleared on every import, that is on every boot.
ModuleInit ==
    /\ pc = "import"
    /\ pc' = "boot"
    /\ backup_logs' = IF config.log_to_buffer THEN clear(backup_logs) ELSE backup_logs
    /\ UNCHANGED << config, reset_cause, backup_ram, first_boot, iteration,
                    state_id, logs, exc, exception_log, led, episode,
                    narrow_boot, narrow_any, cycle_writes, ram_resets, prev,
                    late, failed_batch, handler,
                    scan_result, connected, interrupted >>

\* main(), lines 178-199: wake reasoning (three info logs), board init
\* (config["batt_cap"] raises KeyError when the dict lacks the key),
\* registration of the button interrupt.
Boot ==
    /\ pc = "boot"
    /\ IF config.has_batt_cap
       THEN /\ pc' = "backup_ram"
            /\ first_boot' = is_first_boot(reset_cause)
            /\ backup_logs' = Logged(backup_logs, << "reset_cause", "wake_reason", "first_boot" >>)
            /\ failed_batch' = << >>
            /\ UNCHANGED << config, reset_cause, backup_ram, iteration, state_id,
                            logs, exc, exception_log, led, episode, narrow_boot,
                            narrow_any, cycle_writes, ram_resets, prev, late,
                            handler, scan_result, connected, interrupted >>
       ELSE Raise("KeyError", Logged(backup_logs, << "reset_cause", "wake_reason", "first_boot" >>))

\* main(), lines 201-206: backup_ram_is_valid() is called only when
\* first_boot is false; `checked` is the store after that test.
BackupRam ==
    /\ pc = "backup_ram"
    /\ pc' = "net"
    /\ LET checked == IF first_boot THEN backup_ram
                       ELSE backup_ram_is_valid_store(backup_ram) IN
       IF must_init(first_boot, backup_ram)
       THEN /\ backup_ram' = backup_ram_init(checked)
            /\ ram_resets' = ram_resets + 1
            /\ backup_logs' = Logged(backup_logs, << "init_ram" >>)
       ELSE /\ backup_ram' = checked
            /\ UNCHANGED << ram_resets, backup_logs >>
    /\ UNCHANGED << config, reset_cause, first_boot, iteration, state_id, logs,
                    exc, exception_log, led, episode, narrow_boot, narrow_any,
                    cycle_writes, prev, late, failed_batch, handler,
                    scan_result, connected, interrupted >>

\* main(), lines 208-217: sensor init, network_init() (one info log; the
\* transport of config.py is supported), net.connect().  Any of the
\* collaborators may raise.
NetInit ==
    /\ pc = "net"
    /\ \/ /\ pc' = "scan"
          /\ backup_logs' = Logged(backup_logs, << "init_net" >>)
          /\ connected' = TRUE
          /\ UNCHANGED << config, reset_cause, backup_ram, first_boot, iteration,
                          state_id, logs, exc, exception_log, led, episode,
                          narrow_boot, narrow_any, cycle_writes, ram_resets,
                          prev, late, failed_batch, handler,
                          scan_result, interrupted >>
       \/ Raise("Exception", Logged(backup_logs, << "init_net" >>))

\* (variant: a failed scan stores the configured default channel)
scan_else_default(ram, scan_error, peer_channel) ==
    RamSet(ram, BACKUP_NAME_PC, IF scan_error THEN 1 ELSE peer_channel)

\* Lines 220-225, try / except ScanError / else: the store after the
\* statement; the else clause, the one write, runs when nothing was raised.
scan_else(ram, scan_error, peer_channel) ==
    IF scan_error THEN ram ELSE RamSet(ram, BACKUP_NAME_PC, peer_channel)

\* main(), lines 219-225: the scan for the master.  ScanError is logged and
\* startup goes on; a found channel is stored.
Scan ==
    /\ pc = "scan"
    /\ pc' = "sync"
    /\ \/ \E peer_channel \in ScanChannels :
            /\ backup_ram' = scan_else(backup_ram, FALSE, peer_channel)
            /\ scan_result' = "ok"
            /\ UNCHANGED backup_logs
       \/ /\ backup_ram' = scan_else(backup_ram, TRUE, 0)
          /\ scan_result' = "failed"
          /\ backup_logs' = Logged(backup_logs, << "scan_failed" >>)
    /\ UNCHANGED << config, reset_cause, first_boot, iteration, state_id, logs,
                    exc, exception_log, led, episode, narrow_boot, narrow_any,
                    cycle_writes, ram_resets, prev, late, failed_batch, handler,
                    connected, interrupted >>

\* main(), lines 227-280: time sync, sensor and device objects, discovery
\* (any of them may raise), then the state table: config["lux_cycles"] raises
\* KeyError when the dict lacks the key.
StateTable ==
    /\ pc = "sync"
    /\ \/ Raise("Exception", backup_logs)
       \/ IF config.has_lux_cycles
          THEN /\ iteration' = StateLux_init(config.lux_cycles)
               /\ backup_logs' = Logged(backup_logs, << "starting" >>)
               /\ pc' = "connect"
               /\ UNCHANGED << config, reset_cause, backup_ram, first_boot,
                               state_id, logs, exc, exception_log, led, episode,
                               narrow_boot, narrow_any, cycle_writes, ram_resets,
                               prev, late, failed_batch, handler,
                               scan_result, connected, interrupted >>
          ELSE Raise("KeyError", backup_logs)


\* ------------------------------------------------------ app.py, the loop
\* Lines 282-283: LED on, connect.  A new episode starts here.
Connect ==
    /\ pc = "connect"
    /\ pc' = "lookup"
    /\ led' = TRUE
    /\ connected' = TRUE
    /\ scan_result' = "none"
    /\ UNCHANGED << config, reset_cause, backup_ram, backup_logs, first_boot,
                    iteration, state_id, logs, exc, exception_log, episode,
                    narrow_boot, narrow_any, cycle_writes, ram_resets, prev,
                    late, failed_batch, handler, interrupted >>

\* Lines 285-286: read the Phase Record and index the state table.
Lookup ==
    /\ pc = "lookup"
    /\ IF ~backup_ram_is_valid(backup_ram)
       THEN Raise("KeyError", backup_logs)
       ELSE IF ~state_table_has(backup_ram[BACKUP_NAME_STATE])
       THEN Raise("IndexError", backup_logs)
       ELSE /\ state_id' = backup_ram[BACKUP_NAME_STATE]
            /\ pc' = "entry"
            /\ episode' = (episode + 1) % (config.lux_cycles + 1)
            /\ narrow_boot' =
                  IF state_id' = LUX_SAMPLING
                  THEN Min(narrow_boot + 1, config.lux_cycles + 1) ELSE 0
            /\ narrow_any' =
                  IF state_id' = LUX_SAMPLING
                  THEN Min(narrow_any + 1, config.lux_cycles + 1) ELSE 0
            /\ cycle_writes' = << >>
            /\ UNCHANGED << config, reset_cause, backup_ram, backup_logs,
                            first_boot, iteration, logs, exc, exception_log,
                            led, ram_resets, prev, late, failed_batch, handler,
                            scan_result, connected, interrupted >>

\* Lines 254-271: the sensors registered with the device.
Sensors ==
    { "lux", "supply_v", "supply_c", "batt_v", "batt_c", "batt_chrg",
      "batt_stat", "batt_dur" }

\* Lines 232-252: the read functions that catch the battery and fuel-gauge
\* errors and return None; the other sensors are registered with the bare
\* driver method.
GuardedSensors == { "batt_v", "batt_chrg", "batt_dur" }

\* What entry() reads: ha_device.read(ha_sensor) of the lux sensor in
\* StateLux (line 100), ha_device.read_sensors() in StateAll (line 73).
phase_sensors(id) == IF id = LUX_SAMPLING THEN { "lux" } ELSE Sensors

\* One read, with the sensor `failing` out of order: a value, None from a
\* guarded read function, or the driver's exception.
sensor_read(s, failing) ==
    IF s # failing THEN "value"
    ELSE IF s \in GuardedSensors THEN "None" ELSE "raise"

\* Line 288: curr_state.entry().  Both phases log, read, log and publish;
\* StateLux then counts down.  Neither entry() has a try/except: the
\* exception of a read leaves main() after the first log, and so does one of
\* the publish after the second.
Entry ==
    /\ pc = "entry"
    /\ \E failing \in phase_sensors(state_id) \cup { "none" } :
         IF \E s \in phase_sensors(state_id) : sensor_read(s, failing) = "raise"
         THEN Raise("SensorError", Logged(backup_logs, << "reading" >>))
         ELSE \/ /\ pc' = "exit"
                 /\ backup_logs' = Logged(backup_logs, << "reading", "publishing" >>)
                 /\ iteration' = IF state_id = LUX_SAMPLING
                                 THEN StateLux_entry(iteration) ELSE iteration
                 /\ interrupted' = NotInterrupted
                 /\ UNCHANGED << config, reset_cause, backup_ram, first_boot,
                                 state_id, logs, exc, exception_log, led, episode,
                                 narrow_boot, narrow_any, cycle_writes, ram_resets,
                                 prev, late, failed_batch, handler,
                                 scan_result, connected >>
              \/ Raise("Exception", Logged(backup_logs, << "reading", "publishing" >>))

\* Line 289: curr_state.exit(), then the test of line 291.
Exit ==
    /\ pc = "exit"
    /\ pc' = IF config.log_to_buffer THEN "flush_copy" ELSE "disconnect"
    /\ IF state_id = LUX_SAMPLING
       THEN LET r == StateLux_exit(iteration, config.lux_cycles, backup_ram) IN
            /\ iteration' = r[1]
            /\ backup_ram' = r[2]
            /\ cycle_writes' = cycle_writes \o r[3]
       ELSE LET r == StateAll_exit(backup_ram) IN
            /\ backup_ram' = r[1]
            /\ cycle_writes' = cycle_writes \o r[2]
            /\ UNCHANGED iteration
    /\ UNCHANGED << config, reset_cause, backup_logs, first_boot, state_id, logs,
                    exc, exception_log, led, episode, narrow_boot, narrow_any,
                    ram_resets, prev, late, failed_batch, handler,
                    scan_result, connected, interrupted >>

\* Lines 293-294: one info log, then the snapshot copy.
FlushCopy ==
    /\ pc = "flush_copy"
    /\ pc' = "flush_clear"
    /\ backup_logs' = Logged(backup_logs, << "sending" >>)
    /\ logs' = backup_logs'
    /\ late' = << >>
    /\ failed_batch' = << >>
    /\ UNCHANGED << config, reset_cause, backup_ram, first_boot, iteration,
                    state_id, exc, exception_log, led, episode, narrow_boot,
                    narrow_any, cycle_writes, ram_resets, prev, handler,
                    scan_result, connected, interrupted >>

\* Line 295.
FlushClear ==
    /\ pc = "flush_clear"
    /\ pc' = "publish"
    /\ backup_logs' = clear(backup_logs)
    /\ UNCHANGED << config, reset_cause, backup_ram, first_boot, iteration,
                    state_id, logs, exc, exception_log, led, episode,
                    narrow_boot, narrow_any, cycle_writes, ram_resets, prev,
                    late, failed_batch, handler,
                    scan_result, connected, interrupted >>

\* publish_logs(logs, recover=True) of the publishing collaborator when the
\* send fails: the batch is retained for a later retry.  It is retained at
\* the head of the buffer: line 295 has emptied the buffer by then, so this
\* is the one behaviour of the collaborator under which the entries can be
\* in the buffer again at all.
publish_logs_recover(buf, batch) == batch \o buf

\* Line 296: the publish of the snapshot: delivered, failed, or raising.
\* The snapshot is not read again after this line.
PublishLogs ==
    /\ pc = "publish"
    /\ \/ /\ pc' = "disconnect"
          /\ logs' = << >>
          /\ UNCHANGED << backup_logs, failed_batch >>
          /\ UNCHANGED << config, reset_cause, backup_ram, first_boot, iteration,
                          state_id, exc, exception_log, led, episode, narrow_boot,
                          narrow_any, cycle_writes, ram_resets, prev, late,
                          handler,
                          scan_result, connected, interrupted >>
       \/ /\ Len(logs) + Len(backup_logs) <= MaxBuf
          /\ pc' = "disconnect"
          /\ logs' = << >>
          /\ backup_logs' = publish_logs_recover(backup_logs, logs)
          /\ failed_batch' = logs
          /\ UNCHANGED << config, reset_cause, backup_ram, first_boot, iteration,
                          state_id, exc, exception_log, led, episode, narrow_boot,
                          narrow_any, cycle_writes, ram_resets, prev, late,
                          handler,
                          scan_result, connected, interrupted >>
       \/ Raise("Exception", backup_logs)

\* (variant: the connection is left up)
net_disconnect_skipped(up) == up

\* Line 298: net.disconnect().
net_disconnect(up) == FALSE

\* Lines 298-299: disconnect, LED off.
Disconnect ==
    /\ pc = "disconnect"
    /\ pc' = "sleep"
    /\ led' = FALSE
    /\ connected' = net_disconnect(connected)
    /\ UNCHANGED << config, reset_cause, backup_ram, backup_logs, first_boot,
                    iteration, state_id, logs, exc, exception_log, episode,
                    narrow_boot, narrow_any, cycle_writes, ram_resets, prev,
                    late, failed_batch, handler,
                    scan_result, interrupted >>

\* Line 300: light_sleep() returns and the loop starts over.
Sleep ==
    /\ pc = "sleep"
    /\ pc' = "connect"
    /\ UNCHANGED << config, reset_cause, backup_ram, backup_logs, first_boot,
                    iteration, state_id, logs, exc, exception_log, led, episode,
                    narrow_boot, narrow_any, cycle_writes, ram_resets, prev,
                    late, failed_batch, handler,
                    scan_result, connected, interrupted >>

\* --------------------------------------------- main.py, the except clause
\* (variant: the trace never reaches the file)
write_trace_lost(file) == file

\* logger.critical(...) through the file handler, mode "a": the file holds a
\* trace afterwards, whatever it held.
write_trace(file) == TRUE

\* Lines 6-34: the trace is appended to Exception_Log.txt.  Opening or
\* writing the file may raise inside the except clause, which nothing catches.
ExcLog ==
    /\ pc = "exc_log"
    /\ \/ /\ exception_log' = write_trace(exception_log)
          /\ handler' = Append(handler, "trace")
          /\ pc' = "exc_end"
       \/ /\ pc' = "crashed"
          /\ UNCHANGED << exception_log, handler >>
    /\ UNCHANGED << config, reset_cause, backup_ram, backup_logs, first_boot,
                    iteration, state_id, logs, exc, led, episode, narrow_boot,
                    narrow_any, cycle_writes, ram_resets, prev, late,
                    failed_batch,
                    scan_result, connected, interrupted >>

\* Line 37: the branch of the handler.
blink_branch(debug) == debug

\* Lines 37-38: with the debug flag the handler goes to the blink loop.
ExcBlink ==
    /\ pc = "exc_end"
    /\ blink_branch(config.debug)
    /\ pc' = "blink"
    /\ handler' = Append(handler, "blink")
    /\ UNCHANGED << config, reset_cause, backup_ram, backup_logs, first_boot,
                    iteration, state_id, logs, exc, exception_log, led, episode,
                    narrow_boot, narrow_any, cycle_writes, ram_resets, prev,
                    late, failed_batch,
                    scan_result, connected, interrupted >>

\* Lines 42-44: machine.reset(), a hard reset (the RTC memory is lost).
ExcReset ==
    /\ pc = "exc_end"
    /\ ~blink_branch(config.debug)
    /\ ColdRestart("HARD_RESET")

\* Lines 39-41: the blink loop.
Blink ==
    /\ pc = "blink"
    /\ led' = ~led
    /\ UNCHANGED << config, reset_cause, backup_ram, backup_logs, pc, first_boot,
                    iteration, state_id, logs, exc, exception_log, episode,
                    narrow_boot, narrow_any, cycle_writes, ram_resets, prev,
                    late, failed_batch, handler,
                    scan_result, connected, interrupted >>

\* ------------------------------------------------------------------- Next
Next ==
    \/ ModuleInit
    \/ Boot
    \/ BackupRam
    \/ NetInit
    \/ Scan
    \/ StateTable
    \/ Connect
    \/ Lookup
    \/ Entry
    \/ Exit
    \/ FlushCopy
    \/ FlushClear
    \/ PublishLogs
    \/ Disconnect
    \/ Sleep
    \/ ExcLog
    \/ ExcBlink
    \/ ExcReset
    \/ Blink
    \/ cb_button
    \/ WarmReboot
    \/ PowerCycle

Spec == Init /\ [][Next]_vars

\* ------------------------------------------- app.py, reset(msg, exc_info)
\* Lines 155-174: the soft-reset request.  It logs a warning and raises
\* RuntimeError(msg); the message is not read by the except clause.
reset(msg) == "RuntimeError"

\* A component asks for a soft reset while main() runs.  src/ holds no call
\* of reset(); the request is an event of its own, outside Next.
ResetRequest ==
    /\ pc \in MainPcs
    /\ Raise(reset("retry"), Logged(backup_logs, << "rebooting" >>))

NextReset == Next \/ ResetRequest

\* The program with soft-reset requests.
SpecReset == Init /\ [][NextReset]_vars

\* ================================================================ properties
\* Positions of main() between the boot step and the loop.
StartupPcs == { "backup_ram", "net", "scan", "sync" }

\* The first episode of this boot is about to start or has just begun.
FirstEpisodeStart ==
    /\ pc \in { "connect", "lookup" }
    /\ narrow_boot = 0
    /\ cycle_writes = << >>

\* C1: round-robin.  After a cold boot with lux_cycles = N and no reboot or
\* fault, the episodes 1..N of every round of N+1 run the narrow phase and
\* episode N+1 runs the broad phase; between episodes the Phase Record and
\* the countdown are those of the next episode: narrow with countdown N - k
\* after k narrow episodes of the round (N at the start of a round, also of
\* the round that follows a broad episode), broad after the N-th.
C1_RoundRobin ==
    (first_boot /\ config.has_lux_cycles) =>
        /\ pc \in EpisodePcs =>
              state_id = IF episode = 0 THEN ALL_SAMPLING ELSE LUX_SAMPLING
        /\ pc \in { "connect", "lookup", "sleep" } =>
              IF episode = config.lux_cycles
              THEN PhaseOf(backup_ram) = {ALL_SAMPLING}
              ELSE /\ PhaseOf(backup_ram) = {LUX_SAMPLING}
                   /\ iteration = config.lux_cycles - episode

\* C1 witness: after a cold boot, the episode after the broad one is about
\* to start (episode N+2), for the longest cycle length.
C1_Witness ==
    /\ first_boot
    /\ config.lux_cycles = MaxCycles
    /\ pc = "connect"
    /\ episode = 0
    /\ cycle_writes = << LUX_SAMPLING >>
    /\ iteration = MaxCycles

\* C2 (as stated): counting narrow episodes across warm reboots that fall
\* between episodes, at most N of them run since the last broad episode or
\* the initialisation.
C2_BroadEveryNAcrossReboots == narrow_any <= config.lux_cycles

\* C2 (amended): within one boot, at most N narrow episodes run since the
\* boot or the last broad episode, and after the N-th the Phase Record
\* selects the broad phase.
C2_BroadEveryNWithinBoot ==
    /\ narrow_boot <= config.lux_cycles
    /\ (pc = "sleep" /\ narrow_boot = config.lux_cycles) =>
          PhaseOf(backup_ram) = {ALL_SAMPLING}

\* C2 witness: on a warm boot, N narrow episodes have run and the Phase
\* Record has moved on to the broad phase.
C2_Witness ==
    /\ ~first_boot
    /\ pc = "sleep"
    /\ config.lux_cycles = MaxCycles
    /\ narrow_boot = MaxCycles
    /\ PhaseOf(backup_ram) = {ALL_SAMPLING}

\* C3: a Phase Record outside the defined ordinals, found on a warm boot, is
\* replaced before the first episode: the loop never sees such a record and
\* the table lookup never raises.
C3_OutOfRangeReinitialised ==
    /\ pc \in { "connect", "lookup" } => PhaseOf(backup_ram) \subseteq DeviceState
    /\ exc # "IndexError"

\* C4: one cycle (entry, then exit) writes the Phase Record at most once,
\* only values of DeviceState, and a narrow cycle whose countdown has not
\* reached zero writes nothing; the Phase Record changes in a cycle only by
\* such a write.
C4_InCycle == pc \in EpisodePcs /\ pc' \in EpisodePcs

C4_AtMostOneWrite ==
    /\ [](/\ Len(cycle_writes) <= 1
          /\ \A i \in 1..Len(cycle_writes) : cycle_writes[i] \in DeviceState)
    /\ [][ /\ (C4_InCycle /\ pc = "exit" /\ state_id = LUX_SAMPLING /\ iteration # 0)
               => (cycle_writes' = << >> /\ backup_ram' = backup_ram)
           /\ (C4_InCycle /\ PhaseOf(backup_ram') # PhaseOf(backup_ram))
               => (/\ cycle_writes' = Append(cycle_writes, backup_ram'[BACKUP_NAME_STATE])
                   /\ PhaseOf(backup_ram') \subseteq DeviceState) ]_vars

\* C4 witness: a cycle has ended with its one write, the transition to the
\* broad phase.
C4_Witness ==
    /\ pc = "sleep"
    /\ cycle_writes = << ALL_SAMPLING >>
    /\ PhaseOf(backup_ram) = {ALL_SAMPLING}

\* C5: after a warm reboot that hit the narrow phase with the countdown at
\* k, 0 < k < N, the Phase Record still selects the narrow phase up to the
\* first episode, which starts with the countdown at N.
C5_RebootMidCountdown ==
    prev.mid_countdown =>
        /\ (pc \in StartupPcs \/ FirstEpisodeStart) =>
              PhaseOf(backup_ram) = {LUX_SAMPLING}
        /\ FirstEpisodeStart => iteration = config.lux_cycles

\* C5 witness: the first episode after such a reboot is about to start.
C5_Witness ==
    /\ prev.mid_countdown
    /\ FirstEpisodeStart
    /\ pc = "connect"

\* C6: on a cold boot, and on a warm boot that finds no Phase Record, the
\* boot step resets the store and sets the Phase Record to the narrow
\* phase: right after the step the store holds that one key, and every later
\* position of main(), the episodes included, is reached with the reset done.
C6_InitOnColdOrAbsent ==
    (pc \in MainPcs \ {"backup_ram"} /\ (first_boot \/ prev.state = {})) =>
        /\ ram_resets = 1
        /\ pc = "net" => backup_ram = RamSet(EmptyRam, BACKUP_NAME_STATE, LUX_SAMPLING)

\* C6 witness: a warm boot without Phase Record has just run the boot step.
C6_Witness ==
    /\ pc = "net"
    /\ ~first_boot
    /\ prev.state = {}
    /\ ram_resets = 1

\* C7: on a warm boot that finds a Phase Record, the boot step does not
\* reset the store, and the Phase Record at the start of the first episode
\* is the one the previous run left.
C7_WarmValidKept ==
    (pc \in MainPcs /\ ~first_boot /\ prev.state # {}) =>
        /\ ram_resets = 0
        /\ (pc \in StartupPcs \/ FirstEpisodeStart) =>
              PhaseOf(backup_ram) = prev.state

\* C7 witness: the first episode of a warm boot is about to start with the
\* broad phase the previous run left.
C7_Witness ==
    /\ pc = "connect"
    /\ FirstEpisodeStart
    /\ ~first_boot
    /\ prev.state = {ALL_SAMPLING}
    /\ PhaseOf(backup_ram) = {ALL_SAMPLING}

\* C8: an entry appended between the snapshot copy and clear() is still in
\* the buffer after that clear().
C8_LateEntrySurvivesClear ==
    pc = "publish" => \A i \in 1..Len(late) : late[i] \in Range(backup_logs)

\* C9: the entries of a snapshot whose publish failed stay in the buffer
\* until the next snapshot takes them, also across a reboot that keeps the
\* RTC memory.
C9_FailedBatchKept ==
    failed_batch # << >> => IsPrefix(failed_batch, backup_logs)

C11_HandlerSurvivesWriteFailure == pc # "crashed"

\* C12: a soft-reset request raised through reset() does not end in the
\* blink loop, also with the debug flag set.
C12_SoftResetNeverBlinks == ~(pc = "blink" /\ exc = reset("retry"))

\* C13: the read failure of one sensor inside entry() is resolved in the
\* phase: the episode goes on and the exception of the read never reaches
\* the except clause of main.py.
C13_SensorFailureStaysLocal == exc # "SensorError"

\* The stored peer channel as a set: empty when the key is not in the store.
ChannelOf(ram) ==
    IF BACKUP_NAME_PC \in DOMAIN ram THEN {ram[BACKUP_NAME_PC]} ELSE {}

\* C14: a failed scan is not fatal.  The step of the failed scan leaves the
\* whole store as it was (stored channel and Phase Record included) and goes
\* on to the next step of startup; up to the loop no exception is pending
\* because of it; and the stored channel takes a new value only in the step
\* of a scan that succeeded, a step that leaves the Phase Record alone.
C14_FailedScanNonFatal ==
    /\ [](scan_result = "failed" => (pc \in { "sync", "connect" } /\ exc = "none"))
    /\ [][ /\ (pc = "scan" /\ scan_result' = "failed") =>
                 (backup_ram' = backup_ram /\ pc' = "sync")
           /\ (pc = "scan" /\ pc' = "sync") =>
                 PhaseOf(backup_ram') = PhaseOf(backup_ram)
           /\ (ChannelOf(backup_ram') # ChannelOf(backup_ram)
                  /\ ChannelOf(backup_ram') # {}) =>
                 (pc = "scan" /\ scan_result' = "ok") ]_vars

\* C14 witness: a warm boot whose scan failed is at the head of the loop,
\* the stale channel of an earlier run still stored.
C14_Witness ==
    /\ pc = "connect"
    /\ scan_result = "failed"
    /\ ~first_boot
    /\ ChannelOf(backup_ram) = StaleChannels
    /\ exc = "none"

C16_InterruptedPhaseRunsAgain ==
    (pc = "entry" /\ interrupted.phase # {}) => state_id \in interrupted.phase

\* C16 (amended): in the loop the Phase Record changes only in the exit
\* step; entry(), a fault in it and a warm reboot during it leave the store
\* as it was; the next episode runs the interrupted phase when only warm
\* reboots lie in between, and the narrow phase once the except clause has
\* issued its hard reset.
C16_WrittenOnlyInExit ==
    /\ []((pc = "entry" /\ interrupted.phase # {}) =>
             IF interrupted.by = "hard_reset"
             THEN state_id = LUX_SAMPLING
             ELSE state_id \in interrupted.phase)
    /\ [][ /\ (pc \in LoopPcs /\ pc' # "import"
                  /\ PhaseOf(backup_ram') # PhaseOf(backup_ram)) => pc = "exit"
           /\ (pc = "entry" /\ pc' # "import") => backup_ram' = backup_ram
           /\ (pc = "entry" /\ pc' = "import" /\ reset_cause' \in WarmCauses) =>
                 backup_ram' = backup_ram ]_vars

\* C16 witness: a warm reboot cut the entry() of the broad phase short, and
\* the first episode of the next boot runs the broad phase.
C16_Witness ==
    /\ pc = "entry"
    /\ interrupted = [ phase |-> {ALL_SAMPLING}, by |-> "reboot" ]
    /\ reset_cause \in WarmCauses
    /\ state_id = ALL_SAMPLING

\* C17: the steps of an episode follow one another in the order connect,
\* lookup, entry, exit, (snapshot, clear, publish with buffering only),
\* disconnect, sleep; an episode starts only from the startup or from the end
\* of the previous sleep; the connection is down during the sleep.
C17_EpisodeOrder ==
    /\ [](pc = "sleep" => ~connected)
    /\ [][ /\ (pc \in LoopPcs /\ pc' \in LoopPcs /\ pc' # pc) =>
                 \/ pc = "connect" /\ pc' = "lookup"
                 \/ pc = "lookup" /\ pc' = "entry"
                 \/ pc = "entry" /\ pc' = "exit"
                 \/ pc = "exit" /\ config.log_to_buffer /\ pc' = "flush_copy"
                 \/ pc = "exit" /\ ~config.log_to_buffer /\ pc' = "disconnect"
                 \/ pc = "flush_copy" /\ pc' = "flush_clear"
                 \/ pc = "flush_clear" /\ pc' = "publish"
                 \/ pc = "publish" /\ pc' = "disconnect"
                 \/ pc = "disconnect" /\ pc' = "sleep"
                 \/ pc = "sleep" /\ pc' = "connect"
           /\ (pc' = "connect" /\ pc # "connect") => pc \in { "sync", "sleep" }
           /\ (pc = "connect" /\ pc' = "lookup") => connected'
           /\ (pc \in EpisodePcs /\ pc' \in EpisodePcs) =>
                 (connected' = connected /\ episode' = episode) ]_vars

\* C17 witness: the second episode of a boot with buffering has gone through
\* the flush and the disconnect and is in its sleep.
C17_Witness ==
    /\ pc = "sleep"
    /\ config.log_to_buffer
    /\ episode = 2
    /\ ~connected
    /\ ~led

\* C18: with the configuration of config.py as shipped, no lookup of an
\* option raises KeyError on the way to the loop.
C18_ShippedConfigNoKeyError ==
    config = ShippedConfig => exc # "KeyError"

\* C19: in the loop the countdown is in 0..N, and in 1..N everywhere but
\* between entry() and exit(); it is 0 only there, in the N-th narrow episode
\* since the boot or the last broad one; the exit step that finds it 0 sets
\* it to N and writes the broad phase, and no other step of the loop writes
\* the broad phase.
C19_CountdownInvariant ==
    /\ [](pc \in LoopPcs =>
             /\ iteration \in 0..config.lux_cycles
             /\ pc # "exit" => iteration \in 1..config.lux_cycles
             /\ iteration = 0 =>
                   (state_id = LUX_SAMPLING /\ narrow_boot = config.lux_cycles))
    /\ [][ /\ (pc = "exit" /\ iteration = 0 /\ pc' \notin { "exit", "import" }) =>
                 /\ iteration' = config.lux_cycles
                 /\ PhaseOf(backup_ram') = {ALL_SAMPLING}
           /\ (pc \in LoopPcs /\ pc' # "import"
                  /\ PhaseOf(backup_ram') # PhaseOf(backup_ram)
                  /\ PhaseOf(backup_ram') = {ALL_SAMPLING}) =>
                 (pc = "exit" /\ iteration = 0 /\ iteration' = config.lux_cycles)
         ]_vars

\* C19 witness: the exit() of the N-th narrow episode (N = 2) has found the
\* countdown at 0, set it to N again and written the broad phase.
C19_Witness ==
    /\ config.lux_cycles = 2
    /\ pc \in { "flush_copy", "disconnect" }
    /\ state_id = LUX_SAMPLING
    /\ narrow_boot = 2
    /\ iteration = 2
    /\ cycle_writes = << ALL_SAMPLING >>
    /\ PhaseOf(backup_ram) = {ALL_SAMPLING}

\* C20: the except clause resets the device only with the debug flag off;
\* in the boot that the hard reset starts, main() takes the boot for a first
\* boot, initialises the store once, and the first episode is a narrow one
\* that starts with the countdown at N, whatever the store held and whichever
\* phase the fault interrupted.
C20_HardResetRecovery ==
    /\ [](reset_cause = "HARD_RESET" =>
             /\ pc \in MainPcs => first_boot
             /\ pc \in MainPcs \ { "backup_ram" } => ram_resets = 1
             /\ pc \in { "net", "scan", "sync" } =>
                   PhaseOf(backup_ram) = {LUX_SAMPLING}
             /\ (pc \in { "connect", "lookup" } /\ episode = 0) =>
                   /\ PhaseOf(backup_ram) = {LUX_SAMPLING}
                   /\ iteration = config.lux_cycles
             /\ (pc = "entry" /\ episode = 1) =>
                   /\ state_id = LUX_SAMPLING
                   /\ iteration = config.lux_cycles
             /\ (pc = "entry" /\ interrupted.by = "hard_reset") =>
                   /\ state_id = LUX_SAMPLING
                   /\ iteration = config.lux_cycles)
    /\ [][ (pc = "exc_end" /\ pc' = "import" /\ reset_cause' = "HARD_RESET") =>
              (~config.debug /\ backup_logs' = << >>) ]_vars

\* C20 witness: a fault cut the entry() of a broad episode short, the except
\* clause logged the trace and reset the device, and the first episode of the
\* boot that followed is a narrow one with the countdown at N = 2.
C20_Witness ==
    /\ reset_cause = "HARD_RESET"
    /\ ~config.debug
    /\ config.lux_cycles = 2
    /\ pc = "entry"
    /\ interrupted = [ phase |-> {ALL_SAMPLING}, by |-> "hard_reset" ]
    /\ first_boot
    /\ ram_resets = 1
    /\ state_id = LUX_SAMPLING
    /\ iteration = 2
    /\ exception_log

====
